---------------------------- MODULE Spec2Model ----------------------------
(***************************************************************************)
(* A model of the Validator class (src/src/validator.js) and of the        *)
(* Messages class (src/unnamed/part_000).                                  *)
(*                                                                         *)
(* JavaScript strings are sequences of one-character strings, so that      *)
(* indexOf, substr, replace and split are computed as the code computes    *)
(* them.  JavaScript values are tagged records:                            *)
(*   [t |-> "undef"], [t |-> "null"], [t |-> "num", n |-> 3],              *)
(*   [t |-> "str", s |-> <<"a","b">>], [t |-> "arr", a |-> <<v1, v2>>],    *)
(*   [t |-> "map", m |-> <<[k |-> key, v |-> value], ...>>]                *)
(* A map keeps its entries in insertion order, as a JavaScript object does *)
(* for keys that are not canonical array indices.                          *)
(***************************************************************************)
EXTENDS Integers, Sequences, FiniteSets, TLC

\* ------------------------------------------------------------- values

Undef == [t |-> "undef"]
Null == [t |-> "null"]
Num(n) == [t |-> "num", n |-> n]
Str(s) == [t |-> "str", s |-> s]
Arr(a) == [t |-> "arr", a |-> a]
Map(m) == [t |-> "map", m |-> m]
KV(k, v) == [k |-> k, v |-> v]

\* JavaScript truthiness, as used by `if (propertyValue)` and `if (rule.value)`.
Truthy(v) ==
  CASE v.t = "undef" -> FALSE
    [] v.t = "null" -> FALSE
    [] v.t = "num" -> v.n # 0
    [] v.t = "str" -> v.s # <<>>
    [] OTHER -> TRUE

\* ------------------------------------------------------------- strings

DigitChar == <<"0", "1", "2", "3", "4", "5", "6", "7", "8", "9">>

RECURSIVE NumToStr(_)
\* String(n) for a non-negative integer.
NumToStr(n) ==
  IF n < 10 THEN <<DigitChar[n + 1]>>
  ELSE NumToStr(n \div 10) \o <<DigitChar[(n % 10) + 1]>>

\* String.prototype.indexOf for a one-character needle: 0-based, -1 if absent.
IndexOf(s, c) ==
  IF \E i \in 1..Len(s) : s[i] = c
  THEN (CHOOSE i \in 1..Len(s) : s[i] = c /\ \A j \in 1..(i - 1) : s[j] # c) - 1
  ELSE -1

\* String.prototype.substr(start, length) for start >= 0.
Substr(s, start, length) ==
  IF length <= 0 \/ start >= Len(s) THEN <<>>
  ELSE SubSeq(s, start + 1, IF start + length > Len(s) THEN Len(s) ELSE start + length)

\* String.prototype.substr(start) for start >= 0.
SubstrFrom(s, start) == SubSeq(s, start + 1, Len(s))

RECURSIVE Split(_, _)
\* String.prototype.split for a one-character separator.
Split(s, c) ==
  LET pos == IndexOf(s, c) IN
  IF pos = -1 THEN <<s>>
  ELSE <<Substr(s, 0, pos)>> \o Split(SubstrFrom(s, pos + 1), c)

RECURSIVE Join(_, _)
\* Array.prototype.join for a one-character separator.
Join(parts, c) ==
  IF parts = <<>> THEN <<>>
  ELSE IF Len(parts) = 1 THEN parts[1]
  ELSE parts[1] \o <<c>> \o Join(Tail(parts), c)

\* String.prototype.replace('*', n): the first '*' becomes String(n).
ReplaceFirstStar(s, n) ==
  LET pos == IndexOf(s, "*") IN
  IF pos = -1 THEN s
  ELSE Substr(s, 0, pos) \o NumToStr(n) \o SubstrFrom(s, pos + 1)

\* ------------------------------------------------------------- objects

MapHas(m, k) == \E i \in 1..Len(m) : m[i].k = k
MapGet(m, k) == m[CHOOSE i \in 1..Len(m) : m[i].k = k].v
\* obj[k] = v: an existing key keeps its position.
MapSet(m, k, v) ==
  IF MapHas(m, k)
  THEN [i \in 1..Len(m) |-> IF m[i].k = k THEN KV(k, v) ELSE m[i]]
  ELSE Append(m, KV(k, v))
MapKeys(m) == [i \in 1..Len(m) |-> m[i].k]

LengthKey == <<"l", "e", "n", "g", "t", "h">>

\* The canonical array indices of an array of length n, as property names.
IsIndexOf(key, n) == \E i \in 0..(n - 1) : NumToStr(i) = key
IndexValue(key, n) == CHOOSE i \in 0..(n - 1) : NumToStr(i) = key

\* typeof v === 'object' && v !== null && Object.hasOwnProperty.call(v, key)
HasOwn(v, key) ==
  CASE v.t = "map" -> MapHas(v.m, key)
    [] v.t = "arr" -> IsIndexOf(key, Len(v.a)) \/ key = LengthKey
    [] OTHER -> FALSE

\* v[key], for a key that HasOwn(v, key).
GetOwn(v, key) ==
  CASE v.t = "map" -> MapGet(v.m, key)
    [] v.t = "arr" -> IF key = LengthKey THEN Num(Len(v.a))
                      ELSE v.a[IndexValue(key, Len(v.a)) + 1]

\* v.length as the loop bound of `propertyNumber < propertyValue.length`:
\* a comparison with undefined is false, so a value without a numeric
\* length gives no iteration.
LengthOf(v) ==
  CASE v.t = "arr" -> Len(v.a)
    [] v.t = "str" -> Len(v.s)
    [] v.t = "map" -> IF MapHas(v.m, LengthKey) /\ MapGet(v.m, LengthKey).t = "num"
                      THEN MapGet(v.m, LengthKey).n ELSE 0
    [] OTHER -> 0

\* path.replace(/^\./, '')
StripLeadingDot(s) == IF s # <<>> /\ s[1] = "." THEN Tail(s) ELSE s

RECURSIVE WalkKeys(_, _)
\* The key-by-key walk of _objectPath.
WalkKeys(copy, keys) ==
  IF keys = <<>> THEN copy
  ELSE IF HasOwn(copy, keys[1]) THEN WalkKeys(GetOwn(copy, keys[1]), Tail(keys))
  ELSE Undef

\* Validator._objectPath.  Paths of the model hold no bracket notation, so
\* the bracket rewrite leaves them as they are.
_objectPath(obj, path) ==
  IF obj.t = "map" /\ MapHas(obj.m, path) THEN MapGet(obj.m, path)
  ELSE WalkKeys(obj, Split(StripLeadingDot(path), "."))


\* ------------------------------------------------------------- rule catalog

RequiredName == <<"r", "e", "q", "u", "i", "r", "e", "d">>
SometimesName == <<"s", "o", "m", "e", "t", "i", "m", "e", "s">>
MinName == <<"m", "i", "n">>
RemoteName == <<"r", "e", "m", "o", "t", "e">>

\* The catalog's registration metadata (rule name -> implicit, async).
\* `required` is registered implicit; `remote` stands for a rule registered
\* with registerAsync.
IsImplicit(name) == name = RequiredName
IsAsync(name) == name = RemoteName

\* ------------------------------------------------------------- flattening

\* Object.getOwnPropertyNames(current).length
OwnPropertyCount(current) ==
  CASE current.t = "map" -> Len(current.m)
    [] current.t = "arr" -> Len(current.a) + 1
    [] current.t = "str" -> Len(current.s) + 1
    [] OTHER -> 0

RECURSIVE recurse(_, _, _)
RECURSIVE recurseProps(_, _, _)
\* The inner function of _flattenObject; `property` is <<>> when it is
\* undefined or the empty string (both are falsy).
recurse(flattened, current, property) ==
  IF property = <<>> /\ OwnPropertyCount(current) = 0 THEN flattened
  ELSE IF current.t # "map" THEN MapSet(flattened, property, current)
  ELSE IF current.m = <<>> THEN MapSet(flattened, property, Map(<<>>))
  ELSE recurseProps(flattened, current.m, property)

\* The `for (const p in current)` loop of recurse.
recurseProps(flattened, props, property) ==
  IF props = <<>> THEN flattened
  ELSE recurseProps(
         recurse(flattened, props[1].v,
                 IF property # <<>> THEN property \o <<".">> \o props[1].k
                 ELSE props[1].k),
         Tail(props), property)

\* Validator._flattenObject
_flattenObject(obj) == IF Truthy(obj) THEN recurse(<<>>, obj, <<>>) ELSE <<>>

\* ------------------------------------------------------------- rule parsing

Rule(name, value) == [t |-> "rule", name |-> name, value |-> value]

\* Validator._extractRuleAndRuleValue
_extractRuleAndRuleValue(ruleString) ==
  IF IndexOf(ruleString, ":") >= 0
  THEN LET ruleArray == Split(ruleString, ":")
       IN Rule(ruleArray[1], Str(Join(Tail(ruleArray), ":")))
  ELSE Rule(ruleString, Undef)

RECURSIVE MapToRules(_)
\* `for (let rule in rulesArray[i]) rules.push({name: rule, value: ...})`
MapToRules(m) ==
  IF m = <<>> THEN <<>>
  ELSE <<Rule(m[1].k, m[1].v)>> \o MapToRules(Tail(m))

RECURSIVE _prepareRulesArray(_)
\* Validator._prepareRulesArray: an element that is a map gives one rule per
\* key, null gives none, anything else is kept as it is.
_prepareRulesArray(rulesArray) ==
  IF rulesArray = <<>> THEN <<>>
  ELSE LET x == rulesArray[1]
           head == CASE x.t = "map" -> MapToRules(x.m)
                     [] x.t = "null" -> <<>>
                     [] OTHER -> <<x>>
       IN head \o _prepareRulesArray(Tail(rulesArray))

RECURSIVE _replaceWildCards(_, _)
\* Validator._replaceWildCards for a string `path`: each bound index replaces
\* the first '*' that is left; `nums` is <<>> when wildCardValues is undefined.
_replaceWildCards(path, nums) ==
  IF nums = <<>> THEN path
  ELSE LET pos == IndexOf(path, "*")
           path2 == IF pos = -1 THEN path
                    ELSE Substr(path, 0, pos) \o NumToStr(nums[1]) \o SubstrFrom(path, pos + 1)
       IN _replaceWildCards(path2, Tail(nums))

RECURSIVE ReplaceKeys(_, _, _)
\* The forEach over Object.keys(customMessages), a snapshot of the keys.
ReplaceKeys(customMessages, keys, nums) ==
  IF keys = <<>> THEN customMessages
  ELSE ReplaceKeys(
         IF nums # <<>>
         THEN MapSet(customMessages, _replaceWildCards(keys[1], nums),
                     MapGet(customMessages, keys[1]))
         ELSE customMessages,
         Tail(keys), nums)

\* Validator._replaceWildCardsMessages
_replaceWildCardsMessages(customMessages, nums) ==
  ReplaceKeys(customMessages, MapKeys(customMessages), nums)

\* `rule.value = this._replaceWildCards(rule.value, wildCardValues)`.  The
\* rule specifications of the model give a value that is not a string only
\* on paths without '*', where wildCardValues is undefined and the value is
\* returned as it is.
ReplaceInValue(value, nums) ==
  IF value.t = "str" THEN Str(_replaceWildCards(value.s, nums)) ELSE value

\* The elements _parseRulesDefault iterates over: a prepared array, the
\* '|'-split of a string, and nothing for a value without a length.
RulesArrayOf(rulesArray) ==
  CASE rulesArray.t = "arr" -> _prepareRulesArray(rulesArray.a)
    [] rulesArray.t = "str" ->
         LET parts == Split(rulesArray.s, "|")
         IN [i \in 1..Len(parts) |-> Str(parts[i])]
    [] OTHER -> <<>>

RECURSIVE ParseLoop(_, _, _, _)
\* The loop of _parseRulesDefault over rulesArray.  `self` carries the
\* validator fields the loop writes (hasAsync, customMessages);
\* `attributeRules` is the result so far.
ParseLoop(self, elems, attributeRules, wildCardValues) ==
  IF elems = <<>> THEN [self |-> self, attributeRules |-> attributeRules]
  ELSE LET rule0 == IF elems[1].t = "str" THEN _extractRuleAndRuleValue(elems[1].s)
                    ELSE elems[1]
           hasValue == Truthy(rule0.value)
           rule == IF hasValue
                   THEN Rule(rule0.name, ReplaceInValue(rule0.value, wildCardValues))
                   ELSE rule0
           self1 == IF hasValue
                    THEN [self EXCEPT !.customMessages =
                            _replaceWildCardsMessages(self.customMessages, wildCardValues)]
                    ELSE self
           self2 == IF IsAsync(rule.name) THEN [self1 EXCEPT !.hasAsync = TRUE] ELSE self1
       IN ParseLoop(self2, Tail(elems), Append(attributeRules, rule), wildCardValues)

\* Validator._parseRulesDefault; self.parsedRules is the parsedRules argument.
_parseRulesDefault(self, attribute, rulesArray, wildCardValues) ==
  LET r == ParseLoop(self, RulesArrayOf(rulesArray), <<>>, wildCardValues)
  IN [r.self EXCEPT !.parsedRules = MapSet(r.self.parsedRules, attribute, r.attributeRules)]

RECURSIVE _parseRulesCheck(_, _, _, _)
RECURSIVE WildLoop(_, _, _, _, _, _)

\* Validator._parsedRulesRecurse
_parsedRulesRecurse(self, attribute, rulesArray, wildCardValues) ==
  LET parentPath == Substr(attribute, 0, IndexOf(attribute, "*") - 1)
      propertyValue == _objectPath(self.input, parentPath)
  IN IF Truthy(propertyValue)
     THEN WildLoop(self, attribute, rulesArray, wildCardValues, 0, LengthOf(propertyValue))
     ELSE self

\* The loop of _parsedRulesRecurse over propertyNumber.
WildLoop(self, attribute, rulesArray, wildCardValues, propertyNumber, length) ==
  IF propertyNumber >= length THEN self
  ELSE WildLoop(
         _parseRulesCheck(self, ReplaceFirstStar(attribute, propertyNumber), rulesArray,
                          Append(wildCardValues, propertyNumber)),
         attribute, rulesArray, wildCardValues, propertyNumber + 1, length)

\* Validator._parseRulesCheck
_parseRulesCheck(self, attribute, rulesArray, wildCardValues) ==
  IF IndexOf(attribute, "*") > -1
  THEN _parsedRulesRecurse(self, attribute, rulesArray, wildCardValues)
  ELSE _parseRulesDefault(self, attribute, rulesArray, wildCardValues)

RECURSIVE ParseAll(_, _)
\* The loop of _parseRules over the flattened rules.
ParseAll(self, flat) ==
  IF flat = <<>> THEN self
  ELSE ParseAll(_parseRulesCheck(self, flat[1].k, flat[1].v, <<>>), Tail(flat))

\* Validator._parseRules: the fields of the validator after
\* `this.rules = this._parseRules(rules)`.
_parseRules(self, _rules) == ParseAll(self, _flattenObject(_rules))

\* The constructor: input || {}, _setCustom(customMessages || {}),
\* hasAsync = false, rules = _parseRules(rules).
Construct(inputArg, rulesArg, customArg) ==
  _parseRules([input |-> IF Truthy(inputArg) THEN inputArg ELSE Map(<<>>),
               customMessages |-> customArg,
               hasAsync |-> FALSE,
               parsedRules |-> <<>>],
              rulesArg)

\* ------------------------------------------------------------- predicates

\* The `required` predicate: an absent, null or empty value fails.
RequiredPasses(value) ==
  CASE value.t = "undef" -> FALSE
    [] value.t = "null" -> FALSE
    [] value.t = "str" -> value.s # <<>>
    [] value.t = "arr" -> value.a # <<>>
    [] OTHER -> TRUE

\* The outcome of a predicate: `required` looks at the value, `sometimes`
\* always passes, any other rule fails exactly when the environment put its
\* name in `failing`.  The outcome is a function of its arguments, so a rule
\* run twice on the same value gives the same result.
Outcome(failing, name, value) ==
  CASE name = RequiredName -> RequiredPasses(value)
    [] name = SometimesName -> TRUE
    [] OTHER -> name \notin failing

\* rule.validate(inputValue, ruleValue, attribute) without a callback: the
\* boolean the predicate returns; an asynchronous predicate returns nothing,
\* which is not a pass.
ValidateSync(failing, name, value) ==
  IF IsAsync(name) THEN FALSE ELSE Outcome(failing, name, value)

\* ------------------------------------------------------------- messages

DefKey == <<"d", "e", "f">>

RECURSIVE FormatLoop(_, _, _, _)
\* The loop of Messages._getTemplate over formats.
FormatLoop(messages, customMessages, formats, template) ==
  IF formats = <<>> THEN template
  ELSE IF MapHas(customMessages, formats[1]) THEN MapGet(customMessages, formats[1])
  ELSE IF MapHas(messages, formats[1]) THEN MapGet(messages, formats[1])
  ELSE FormatLoop(messages, customMessages, Tail(formats), template)

\* _getTemplate looking through all the custom messages before the catalog.
_getTemplate_CustomFirst(messages, customMessages, rule) ==
  LET ra == rule.name \o <<".">> \o rule.attribute IN
  IF MapHas(customMessages, ra) THEN MapGet(customMessages, ra)
  ELSE IF MapHas(customMessages, rule.name) THEN MapGet(customMessages, rule.name)
  ELSE IF MapHas(messages, ra) THEN MapGet(messages, ra)
  ELSE IF MapHas(messages, rule.name) THEN MapGet(messages, rule.name)
  ELSE MapGet(messages, DefKey)

\* Messages._getTemplate.  The templates of the model are strings, never
\* objects keyed by value type.
_getTemplate(messages, customMessages, rule) ==
  FormatLoop(messages, customMessages,
             <<rule.name \o <<".">> \o rule.attribute, rule.name>>,
             IF MapHas(messages, DefKey) THEN MapGet(messages, DefKey) ELSE "undefined")

\* Messages.render for a rule without a customMessage of its own.  The
\* message is identified by the template it is rendered from; the
\* substitution of the placeholders is not part of the model.
render(messages, customMessages, rule) == _getTemplate(messages, customMessages, rule)

\* ------------------------------------------------------------- the validator
\* A world w is [v, ar, h, failing]: the validator's fields v, the
\* coordinator of the asynchronous run ar, the observations h (what was
\* invoked, what the caller's callbacks saw) and the predicates' behaviour.

\* Validator._addFailure: errors.add(rule.attribute, msg); errorCount++.
\* h.failures notes which rule each record came from.
_addFailure(w, rule) ==
  LET msg == render(w.v.messages, w.v.customMessages, rule)
  IN [w EXCEPT !.v.errors = Append(@, [attribute |-> rule.attribute, message |-> msg]),
               !.v.errorCount = @ + 1,
               !.h.failures = Append(@, [attribute |-> rule.attribute, name |-> rule.name,
                                         message |-> msg])]

\* Validator._hasRule
_hasRule(rules, attribute, findRules) ==
  LET attributeRules == IF MapHas(rules, attribute) THEN MapGet(rules, attribute) ELSE <<>>
  IN \E i \in 1..Len(attributeRules) : attributeRules[i].name \in findRules

\* Validator._suppliedWithData: this.input.hasOwnProperty(attribute)
_suppliedWithData(input, attribute) == input.t = "map" /\ MapHas(input.m, attribute)

\* Validator._isValidatable
_isValidatable(name, value) ==
  \/ value.t = "arr"
  \/ IsImplicit(name)
  \/ RequiredPasses(value)

\* Validator.stopOnError arguments: Undef until stopOnError is called, then
\* a boolean or an array of attributes.
Bool(b) == [t |-> "bool", b |-> b]

\* _shouldStopValidating without the test of the attribute list.
_shouldStopValidating_AnyList(stopOnAttributes, attribute, rulePassed) ==
  IF stopOnAttributes.t = "undef"
     \/ (stopOnAttributes.t = "bool" /\ stopOnAttributes.b = FALSE)
     \/ rulePassed = TRUE
  THEN FALSE
  ELSE TRUE

\* Validator._shouldStopValidating
_shouldStopValidating(stopOnAttributes, attribute, rulePassed) ==
  IF stopOnAttributes.t = "undef"
     \/ (stopOnAttributes.t = "bool" /\ stopOnAttributes.b = FALSE)
     \/ rulePassed = TRUE
  THEN FALSE
  ELSE IF stopOnAttributes.t = "arr"
  THEN \E i \in 1..Len(stopOnAttributes.a) : stopOnAttributes.a[i] = attribute
  ELSE TRUE

\* The test that makes check and checkAsync skip an attribute.
SkipsAttribute(v, attribute) ==
  _hasRule(v.rules, attribute, {SometimesName}) /\ ~_suppliedWithData(v.input, attribute)

RECURSIVE CheckRules(_, _, _, _, _)
\* The inner loop of check over the rules of one attribute, from index i.
CheckRules(w, attribute, attributeRules, inputValue, i) ==
  IF i > Len(attributeRules) THEN w
  ELSE LET ruleOptions == attributeRules[i] IN
       IF ~_isValidatable(ruleOptions.name, inputValue)
       THEN CheckRules(w, attribute, attributeRules, inputValue, i + 1)
       ELSE LET rulePassed == ValidateSync(w.failing, ruleOptions.name, inputValue)
                rule == [name |-> ruleOptions.name, attribute |-> attribute]
                w1 == [w EXCEPT !.h.invoked =
                         Append(@, [attribute |-> attribute, name |-> ruleOptions.name,
                                    index |-> i, passed |-> rulePassed])]
                w2 == IF ~rulePassed THEN _addFailure(w1, rule) ELSE w1
            IN IF _shouldStopValidating(w.v.stopOnAttributes, attribute, rulePassed)
               THEN w2
               ELSE CheckRules(w2, attribute, attributeRules, inputValue, i + 1)

RECURSIVE CheckAttributes(_, _)
\* The outer loop of check over the attributes of this.rules.
CheckAttributes(w, entries) ==
  IF entries = <<>> THEN w
  ELSE LET attribute == entries[1].k
           inputValue == _objectPath(w.v.input, attribute)
       IN CheckAttributes(
            IF SkipsAttribute(w.v, attribute) THEN w
            ELSE CheckRules(w, attribute, entries[1].v, inputValue, 1),
            Tail(entries))

\* Validator.check: the world after the run; its return value is CheckResult.
check(w) == CheckAttributes(w, w.v.rules)
CheckResult(w) == w.v.errorCount = 0

\* _checkAsync without the usage error.
_checkAsync_NoThrow(hasAsync, hasCallback) ==
  IF hasAsync \/ hasCallback THEN "async" ELSE "sync"

\* Validator._checkAsync: "throw" for the usage error, else whether the run
\* is asynchronous.
_checkAsync(hasAsync, hasCallback) ==
  IF hasAsync /\ ~hasCallback THEN "throw"
  ELSE IF hasAsync \/ hasCallback THEN "async"
  ELSE "sync"

\* ------------------------------------------------------------- the coordinator
\* AsyncResolvers, as checkAsync uses it: add, resolve, enableFiring, fire.
\* ar = [registered, resolved, dispatchComplete, allPassed]; a token is the
\* 0-based position of its rule in `registered`.

NewAsyncResolvers ==
  [registered |-> <<>>, resolved |-> {}, dispatchComplete |-> FALSE, allPassed |-> TRUE]

\* resolvedAll with its branches exchanged.
resolvedAll_Swapped(w, allPassed) ==
  IF allPassed
  THEN [w EXCEPT !.h.failsCalls = @ + 1, !.h.errorsAtCallback = w.v.errors]
  ELSE [w EXCEPT !.h.passesCalls = @ + 1, !.h.errorsAtCallback = w.v.errors]

\* The resolvedAll closure of checkAsync: passes() or fails().  The
\* observations note what the error collector held at that moment.
resolvedAll(w, allPassed) ==
  IF allPassed
  THEN [w EXCEPT !.h.passesCalls = @ + 1, !.h.errorsAtCallback = w.v.errors]
  ELSE [w EXCEPT !.h.failsCalls = @ + 1, !.h.errorsAtCallback = w.v.errors]

\* The failsOne closure of checkAsync.
failsOne(w, rule) == _addFailure(w, rule)

\* AsyncResolvers.add: registers the rule; the token it returns is
\* Len(w.ar.registered) before the call.
add(w, rule) == [w EXCEPT !.ar.registered = Append(@, rule)]

\* AsyncResolvers.fire: the aggregate callback, once dispatch is complete
\* and no registered token is pending.
fire(w) ==
  IF w.ar.dispatchComplete /\ Cardinality(w.ar.resolved) = Len(w.ar.registered)
  THEN resolvedAll([w EXCEPT !.h.fired = @ + 1], w.ar.allPassed)
  ELSE w

\* AsyncResolvers.enableFiring: dispatch is complete.
enableFiring(w) == [w EXCEPT !.ar.dispatchComplete = TRUE]

\* AsyncResolvers.resolve: an unknown or already resolved token is signalled
\* as an error; otherwise the token is resolved, a failed rule is recorded
\* through failsOne and clears allPassed, and the aggregate fires if this
\* was the last pending token of a complete dispatch.
resolve(w, token) ==
  IF token \notin 0..(Len(w.ar.registered) - 1) \/ token \in w.ar.resolved
  THEN [w EXCEPT !.h.protocolErrors = @ + 1]
  ELSE LET rule == w.ar.registered[token + 1]
           w1 == [w EXCEPT !.ar.resolved = @ \cup {token}]
           w2 == IF rule.passes = FALSE
                 THEN [failsOne(w1, rule) EXCEPT !.ar.allPassed = FALSE]
                 ELSE w1
       IN fire(w2)

\* The callback resolving the token issued last instead of its own, as a
\* closure over a variable shared by the iterations would.
validateRuleCallback_Latest(w, resolverIndex) == resolve(w, Len(w.ar.registered) - 1)

\* The callback validateRule hands to rule.validate:
\* function () { asyncResolvers.resolve(resolverIndex); }
validateRuleCallback(w, resolverIndex) == resolve(w, resolverIndex)

\* The predicate of token `token` completes with `passed`: the rule notes
\* the outcome and invokes the callback it was given.
Complete(w, token, passed) ==
  validateRuleCallback(
    [w EXCEPT !.ar.registered[token + 1].passes = passed,
              !.h.called[token + 1] = @ + 1,
              !.h.outcomes[token + 1] = IF @ = "pending"
                                        THEN (IF passed THEN "passed" ELSE "failed")
                                        ELSE @],
    token)

\* validateRule(inputValue, ruleOptions, attribute, rule)() up to the call of
\* rule.validate: the rule is registered and the predicate invoked.
validateRule(w, item) ==
  [add(w, [name |-> item.name, attribute |-> item.attribute,
           value |-> item.inputValue, passes |-> FALSE])
     EXCEPT !.h.invoked = Append(@, [attribute |-> item.attribute, name |-> item.name,
                                     index |-> item.index, passed |-> FALSE]),
            !.h.called = Append(@, 0),
            !.h.outcomes = Append(@, "pending")]

\* The end of checkAsync without the call of fire.
EndOfDispatch_NoFire(w) == enableFiring(w)

\* The two statements that end checkAsync.
EndOfDispatch(w) == fire(enableFiring(w))

RECURSIVE DispatchRules(_, _, _, _)
\* The inner loop of checkAsync: the rules of one attribute it dispatches.
DispatchRules(attribute, attributeRules, inputValue, i) ==
  IF i > Len(attributeRules) THEN <<>>
  ELSE (IF _isValidatable(attributeRules[i].name, inputValue)
        THEN <<[attribute |-> attribute, name |-> attributeRules[i].name,
                index |-> i, inputValue |-> inputValue]>>
        ELSE <<>>)
       \o DispatchRules(attribute, attributeRules, inputValue, i + 1)

RECURSIVE DispatchList(_, _)
\* The loops of checkAsync: the checks it dispatches, in order.
DispatchList(vv, entries) ==
  IF entries = <<>> THEN <<>>
  ELSE (IF SkipsAttribute(vv, entries[1].k) THEN <<>>
        ELSE DispatchRules(entries[1].k, entries[1].v,
                           _objectPath(vv.input, entries[1].k), 1))
       \o DispatchList(vv, Tail(entries))

\* ------------------------------------------------------------- the inputs
\* The constructor's arguments are drawn from these lists.

Obj_q(n) == Map(<<KV(<<"q">>, Num(n))>>)
Obj_j(a) == Map(<<KV(<<"j">>, Arr(a))>>)

WildPath == <<"i", ".", "*", ".", "q">>
WildPath2 == <<"i", ".", "*", ".", "j", ".", "*">>
MinStarRequired == Str(<<"m", "i", "n", ":", "*", "|", "r", "e", "q", "u", "i", "r", "e", "d">>)
RequiredOnly == Str(<<"r", "e", "q", "u", "i", "r", "e", "d">>)
SometimesMin == Str(<<"s", "o", "m", "e", "t", "i", "m", "e", "s", "|", "m", "i", "n", ":", "3">>)

WildRules == Map(<<KV(WildPath, MinStarRequired)>>)

\* Each entry: the input and the rule specification given to the constructor.
Scenarios ==
  << [input |-> Map(<<KV(<<"i">>, Arr(<<Obj_q(0), Obj_q(5)>>))>>), rules |-> WildRules],
     [input |-> Map(<<KV(<<"i">>, Str(<<"a", "b">>))>>), rules |-> WildRules],
     [input |-> Map(<<KV(<<"i">>, Arr(<<>>))>>), rules |-> WildRules],
     [input |-> Map(<<>>), rules |-> WildRules],
     [input |-> Map(<<KV(<<"i">>, Obj_q(1))>>), rules |-> WildRules],
     [input |-> Map(<<KV(<<"i">>, Num(3))>>), rules |-> WildRules],
     [input |-> Map(<<KV(<<"i">>, Arr(<<Obj_q(0), Obj_q(5)>>))>>),
      rules |-> Map(<<KV(WildPath, RequiredOnly)>>)],
     [input |-> Map(<<KV(<<"i">>, Arr(<<Obj_j(<<Num(1), Num(2)>>), Obj_j(<<Num(3)>>)>>))>>),
      rules |-> Map(<<KV(WildPath2, Str(<<"s", "a", "m", "e", ":", "i", ".", "*", ".", "j", ".", "*">>))>>)],
     [input |-> Map(<<KV(<<"m">>, Num(1)), KV(<<"n">>, Num(2)), KV(<<"p">>, Str(<<>>))>>),
      rules |-> Map(<<KV(<<"m">>, Str(<<"m", "i", "n", ":", "3", "|", "m", "i", "n", ":", "5">>)),
                      KV(<<"n">>, Str(<<"r", "e", "q", "u", "i", "r", "e", "d", "|", "m", "i", "n", ":", "3", "|", "m", "i", "n", ":", "5">>)),
                      KV(<<"p">>, Str(<<"r", "e", "q", "u", "i", "r", "e", "d", "|", "m", "i", "n", ":", "5">>))>>)],
     [input |-> Map(<<KV(<<"m">>, Num(1)), KV(<<"n">>, Str(<<>>))>>),
      rules |-> Map(<<KV(<<"m">>, Arr(<<Str(RequiredName), Map(<<KV(MinName, Num(3))>>)>>))>>)],
     [input |-> Map(<<KV(<<"a">>, Map(<<KV(<<"b">>, Num(1))>>)), KV(<<"c", ".", "d">>, Num(2)),
                      KV(<<"e">>, Null)>>),
      rules |-> Map(<<KV(<<"a">>, Map(<<KV(<<"b">>, SometimesMin)>>)),
                      KV(<<"c", ".", "d">>, SometimesMin),
                      KV(<<"e">>, Str(<<"s", "o", "m", "e", "t", "i", "m", "e", "s", "|", "r", "e", "q", "u", "i", "r", "e", "d">>)),
                      KV(<<"o">>, Str(<<"s", "o", "m", "e", "t", "i", "m", "e", "s", "|", "r", "e", "q", "u", "i", "r", "e", "d">>))>>)],
     [input |-> Map(<<KV(<<"r">>, Num(1)), KV(<<"s">>, Num(2))>>),
      rules |-> Map(<<KV(<<"r">>, Str(<<"r", "e", "m", "o", "t", "e", "|", "m", "i", "n", ":", "3">>)),
                      KV(<<"s">>, Str(<<"r", "e", "m", "o", "t", "e">>))>>)],
     [input |-> Map(<<KV(<<"m">>, Num(1))>>), rules |-> Map(<<>>)],
     [input |-> Map(<<KV(<<"m">>, Num(1))>>),
      rules |-> Map(<<KV(<<"m">>, Arr(<<>>)), KV(<<"k">>, Map(<<>>))>>)] >>

Key_min_m == <<"m", "i", "n", ".", "m">>

Custom_min == KV(MinName, "custom min")
Custom_min_m == KV(Key_min_m, "custom min.m")
Lang_def == KV(DefKey, "lang def")
Lang_required == KV(RequiredName, "lang required")
Lang_min == KV(MinName, "lang min")
Lang_min_m == KV(Key_min_m, "lang min.m")

\* Each entry: the customMessages argument of the constructor, and the
\* message catalog of the language as Lang._make returns it.
MessageArgs ==
  << [custom |-> <<>>, lang |-> <<Lang_def, Lang_required, Lang_min>>],
     [custom |-> <<>>, lang |-> <<Lang_def, Lang_required>>],
     [custom |-> <<>>, lang |-> <<Lang_def, Lang_required, Lang_min, Lang_min_m>>],
     [custom |-> <<Custom_min>>, lang |-> <<Lang_def, Lang_required, Lang_min>>],
     [custom |-> <<Custom_min>>, lang |-> <<Lang_def, Lang_required, Lang_min, Lang_min_m>>],
     [custom |-> <<Custom_min>>, lang |-> <<Lang_def, Lang_required, Lang_min_m>>],
     [custom |-> <<Custom_min_m>>, lang |-> <<Lang_def, Lang_required, Lang_min, Lang_min_m>>],
     [custom |-> <<Custom_min_m, Custom_min>>,
      lang |-> <<Lang_def, Lang_required, Lang_min, Lang_min_m>>],
     [custom |-> <<KV(<<"m", "i", "n", ".", "i", ".", "*", ".", "q">>, "custom min.i.*.q"),
                   KV(<<"r", "e", "q", "u", "i", "r", "e", "d", ".", "i", ".", "*", ".", "q">>,
                      "custom required.i.*.q")>>,
      lang |-> <<Lang_def, Lang_required, Lang_min>>] >>

\* The rules whose predicates the environment may make fail.
FailingPool == {MinName, RemoteName}

\* The arguments of stopOnError.
StopArgs == <<Bool(TRUE), Bool(FALSE), Arr(<<<<"m">>>>), Arr(<<<<"n">>, <<"r">>>>)>>

\* How many times check() runs, passes()/fails() are called, and a predicate
\* misuses its callback, in one behaviour.
MaxRuns == 2
MaxCalls == 1
MaxMisuse == 1

\* ------------------------------------------------------------- the state

VARIABLES
  pc,       \* "new", "ready", "dispatching" (inside checkAsync), "waiting" (after it)
  args,     \* the constructor's arguments and the language catalog
  failing,  \* the rule names whose predicates fail
  v,        \* the validator's fields
  ar,       \* the AsyncResolvers of the asynchronous run
  queue,    \* the checks checkAsync has still to dispatch
  h         \* observations: predicate invocations, return values, callbacks

vars == <<pc, args, failing, v, ar, queue, h>>

World == [v |-> v, ar |-> ar, h |-> h, failing |-> failing]

NewValidator ==
  [input |-> Map(<<>>), rules |-> <<>>, hasAsync |-> FALSE, customMessages |-> <<>>,
   messages |-> <<>>, errors |-> <<>>, errorCount |-> 0, stopOnAttributes |-> Undef]

NoCall == [hasCallback |-> FALSE, outcome |-> "none"]

NoObservations ==
  [invoked |-> <<>>, failures |-> <<>>, runs |-> <<>>, nCalls |-> 0, lastCall |-> NoCall,
   errorsAtStart |-> 0, called |-> <<>>, outcomes |-> <<>>, fired |-> 0,
   passesCalls |-> 0, failsCalls |-> 0, errorsAtCallback |-> <<>>,
   protocolErrors |-> 0, misuse |-> 0, late |-> 0]

Init ==
  /\ pc = "new"
  /\ \E s \in 1..Len(Scenarios), m \in 1..Len(MessageArgs) :
       args = [input |-> Scenarios[s].input, rules |-> Scenarios[s].rules,
               customMessages |-> MessageArgs[m].custom, messages |-> MessageArgs[m].lang]
  /\ failing \in SUBSET FailingPool
  /\ v = NewValidator
  /\ ar = NewAsyncResolvers
  /\ queue = <<>>
  /\ h = NoObservations

\* new Validator(input, rules, customMessages)
Constructor ==
  /\ pc = "new"
  /\ LET self == Construct(args.input, args.rules, args.customMessages)
     IN v' = [NewValidator EXCEPT !.input = self.input, !.rules = self.parsedRules,
                                  !.hasAsync = self.hasAsync,
                                  !.customMessages = self.customMessages,
                                  !.messages = args.messages]
  /\ pc' = "ready"
  /\ UNCHANGED <<args, failing, ar, queue, h>>

\* validator.stopOnError(attributes), before the first run.
StopOnError ==
  /\ pc = "ready"
  /\ v.stopOnAttributes.t = "undef"
  /\ h.runs = <<>> /\ h.nCalls = 0
  /\ \E i \in 1..Len(StopArgs) : v' = [v EXCEPT !.stopOnAttributes = StopArgs[i]]
  /\ UNCHANGED <<pc, args, failing, ar, queue, h>>

\* The observations of a run that starts now.
StartRun(hh) == [hh EXCEPT !.invoked = <<>>, !.failures = <<>>]

\* A run of check(); the observations note what it returned and left.
RunCheck(hh) ==
  LET w == check([World EXCEPT !.h = StartRun(hh)])
  IN /\ v' = w.v
     /\ h' = [w.h EXCEPT !.runs = Append(@, [result |-> CheckResult(w),
                                             errors |-> w.v.errors,
                                             errorCount |-> w.v.errorCount])]
     /\ UNCHANGED <<pc, args, failing, ar, queue>>

\* validator.check()
Check ==
  /\ pc = "ready"
  /\ Len(h.runs) < MaxRuns
  /\ RunCheck(h)

\* The start of checkAsync: a new AsyncResolvers, and the loops begin.
StartCheckAsync(hh) ==
  /\ pc' = "dispatching"
  /\ ar' = NewAsyncResolvers
  /\ queue' = DispatchList(v, v.rules)
  /\ h' = [StartRun(hh) EXCEPT !.errorsAtStart = Len(v.errors)]
  /\ UNCHANGED <<args, failing, v>>

\* validator.checkAsync(passes, fails).  The caller of the model starts its
\* asynchronous run without having called stopOnError, which checkAsync
\* does not read.
CheckAsync ==
  /\ pc = "ready"
  /\ v.stopOnAttributes.t = "undef"
  /\ StartCheckAsync(h)

\* validator.passes(cb) or validator.fails(cb), with or without a callback:
\* the two differ only in the callback they hand to checkAsync and in
\* fails() returning the negation of check().
PassesOrFails ==
  /\ pc = "ready"
  /\ h.nCalls < MaxCalls
  /\ \E hasCallback \in BOOLEAN :
       LET async == _checkAsync(v.hasAsync, hasCallback)
           hh == [h EXCEPT !.nCalls = @ + 1,
                           !.lastCall = [hasCallback |-> hasCallback, outcome |-> async]]
       IN CASE async = "throw" ->
                 /\ h' = hh
                 /\ UNCHANGED <<pc, args, failing, v, ar, queue>>
            [] async = "async" -> v.stopOnAttributes.t = "undef" /\ StartCheckAsync(hh)
            [] OTHER -> Len(h.runs) < MaxRuns /\ RunCheck(hh)

Put(w) == v' = w.v /\ ar' = w.ar /\ h' = w.h

\* One iteration of the loops of checkAsync: validateRule(...)().  A
\* predicate that is not asynchronous completes inside the call; an
\* asynchronous one completes inside the call or later.
Dispatch ==
  /\ pc = "dispatching"
  /\ queue # <<>>
  /\ LET item == Head(queue)
         token == Len(ar.registered)
         w == validateRule(World, item)
     IN \E inline \in BOOLEAN :
          /\ inline \/ IsAsync(item.name)
          /\ Put(IF inline
                 THEN Complete(w, token, Outcome(failing, item.name, item.inputValue))
                 ELSE w)
  /\ queue' = Tail(queue)
  /\ UNCHANGED <<pc, args, failing>>

\* The end of checkAsync: asyncResolvers.enableFiring(); asyncResolvers.fire().
DispatchComplete ==
  /\ pc = "dispatching"
  /\ queue = <<>>
  /\ Put(EndOfDispatch(World))
  /\ pc' = "waiting"
  /\ UNCHANGED <<args, failing, queue>>

\* A deferred predicate completes: its callback is invoked for the first time.
Callback ==
  /\ pc \in {"dispatching", "waiting"}
  /\ \E token \in 0..(Len(ar.registered) - 1) :
       /\ h.called[token + 1] = 0
       /\ LET rule == ar.registered[token + 1]
              w == [World EXCEPT !.h.late = IF pc = "waiting" THEN @ + 1 ELSE @]
          IN Put(Complete(w, token, Outcome(failing, rule.name, rule.value)))
  /\ UNCHANGED <<pc, args, failing, queue>>

\* A predicate invokes its callback again, with any outcome.
CallbackAgain ==
  /\ pc \in {"dispatching", "waiting"}
  /\ h.misuse < MaxMisuse
  /\ \E token \in 0..(Len(ar.registered) - 1), passed \in BOOLEAN :
       /\ h.called[token + 1] >= 1
       /\ Put(Complete([World EXCEPT !.h.misuse = @ + 1], token, passed))
  /\ UNCHANGED <<pc, args, failing, queue>>

\* resolve is called with a token that add never returned.
ResolveUnknown ==
  /\ pc \in {"dispatching", "waiting"}
  /\ h.misuse < MaxMisuse
  /\ Put(resolve([World EXCEPT !.h.misuse = @ + 1], Len(ar.registered)))
  /\ UNCHANGED <<pc, args, failing, queue>>

Next ==
  \/ Constructor
  \/ StopOnError
  \/ Check
  \/ CheckAsync
  \/ PassesOrFails
  \/ Dispatch
  \/ DispatchComplete
  \/ Callback
  \/ CallbackAgain
  \/ ResolveUnknown

Spec == Init /\ [][Next]_vars

\* ------------------------------------------------------------- properties

\* Every check dispatched so far has had its completion callback invoked.
AllCalled == \A t \in 1..Len(h.called) : h.called[t] >= 1
FailedTokens == {t \in 1..Len(h.outcomes) : h.outcomes[t] = "failed"}

\* C1: when every completion callback is invoked exactly once, the
\* aggregate callback fires at most once, only after checkAsync has ended
\* its dispatch and every dispatched check has completed, and it has fired
\* as soon as both are the case.
C1_AggregateFiresOnce ==
  h.misuse = 0 =>
    /\ h.fired <= 1
    /\ h.fired = 1 => (pc = "waiting" /\ AllCalled)
    /\ (pc = "waiting" /\ AllCalled) => h.fired = 1

\* A run of at least two checks, one of them completed after the end of
\* dispatch, has fired.
C1_Witness ==
  /\ h.misuse = 0 /\ h.fired = 1
  /\ Len(h.called) >= 2 /\ h.late >= 1

\* The records added to the error collector by this run before the caller's
\* callback was invoked.
NewErrorsAtCallback ==
  SubSeq(h.errorsAtCallback, h.errorsAtStart + 1, Len(h.errorsAtCallback))

\* C2: when every completion callback is invoked exactly once, the caller's
\* passes/fails callbacks are invoked only by the aggregate completion and
\* exactly one of them once: passes if no check of this run failed, fails
\* otherwise, and the error collector then holds a record for every failed
\* check of the run.
C2_OneCallerCallback ==
  h.misuse = 0 =>
    /\ h.passesCalls + h.failsCalls = h.fired
    /\ h.passesCalls + h.failsCalls <= 1
    /\ (pc = "waiting" /\ AllCalled) => h.passesCalls + h.failsCalls = 1
    /\ h.passesCalls = 1 => FailedTokens = {}
    /\ h.failsCalls = 1 => FailedTokens # {}
    /\ h.passesCalls + h.failsCalls = 1 =>
         /\ Len(NewErrorsAtCallback) = Cardinality(FailedTokens)
         /\ \A t \in FailedTokens :
              \E k \in 1..Len(NewErrorsAtCallback) :
                NewErrorsAtCallback[k].attribute = ar.registered[t].attribute

\* fails was invoked after two checks failed, one of them completing after
\* the end of dispatch, on a validator that already held errors.
C2_Witness ==
  /\ h.misuse = 0 /\ h.failsCalls = 1 /\ h.passesCalls = 0
  /\ Cardinality(FailedTokens) >= 2 /\ h.late >= 1
  /\ h.errorsAtStart >= 1

\* C3: a completion callback invoked again, or a resolve of a token never
\* issued, is signalled as an error and changes neither the resolved
\* tokens, nor the error collector and counter, nor whether the aggregate
\* callback has fired.
C3_MisuseIsSignalled ==
  [][h'.misuse > h.misuse =>
       /\ h'.protocolErrors = h.protocolErrors + 1
       /\ ar'.resolved = ar.resolved
       /\ v'.errors = v.errors
       /\ v'.errorCount = v.errorCount
       /\ h'.fired = h.fired
       /\ h'.passesCalls = h.passesCalls /\ h'.failsCalls = h.failsCalls]_vars

\* A misuse was signalled while another check was still pending.
C3_Witness ==
  /\ h.misuse >= 1 /\ h.protocolErrors >= 1
  /\ Cardinality(ar.resolved) < Len(ar.registered)

\* C4: a call of passes() or fails() on a validator with asynchronous rules
\* throws at once when it is given no callback, with no predicate invoked
\* and the validator left as it was, and starts checkAsync without throwing
\* when it is given one.
C4_UsageError ==
  [][h'.nCalls = h.nCalls + 1 =>
       /\ (v.hasAsync /\ ~h'.lastCall.hasCallback) =>
            /\ h'.lastCall.outcome = "throw"
            /\ v' = v /\ h'.invoked = h.invoked /\ h'.failures = h.failures
            /\ pc' = pc /\ ar' = ar /\ queue' = queue
       /\ (v.hasAsync /\ h'.lastCall.hasCallback) =>
            /\ h'.lastCall.outcome = "async"
            /\ pc' = "dispatching"]_vars

\* The usage error was thrown on a validator with asynchronous rules.
C4_Witness ==
  /\ v.hasAsync /\ h.lastCall.outcome = "throw" /\ ~h.lastCall.hasCallback
  /\ pc = "ready"

\* C5: a second check() returns what the first returned and leaves the
\* error collector and the error counter as the first left them.
C5_CheckIdempotent ==
  Len(h.runs) >= 2 => h.runs[2] = h.runs[1]

\* stopOnError(true), or stopOnError(list) with the attribute in the list.
StopActive(attribute) ==
  \/ v.stopOnAttributes.t = "bool" /\ v.stopOnAttributes.b
  \/ /\ v.stopOnAttributes.t = "arr"
     /\ \E i \in 1..Len(v.stopOnAttributes.a) : v.stopOnAttributes.a[i] = attribute

\* The predicate invocations, and the failures, of the last run for one attribute.
InvokedOf(attribute) == SelectSeq(h.invoked, LAMBDA e : e.attribute = attribute)
FailuresOf(attribute) == SelectSeq(h.failures, LAMBDA e : e.attribute = attribute)
IndicesOf(seq) == {seq[k].index : k \in 1..Len(seq)}

\* The rules of an attribute that the gate of _isValidatable lets through.
ValidatableIndices(attribute) ==
  LET attributeRules == MapGet(v.rules, attribute)
  IN {i \in 1..Len(attributeRules) :
        _isValidatable(attributeRules[i].name, _objectPath(v.input, attribute))}

HasSometimes(attribute) ==
  \E i \in 1..Len(MapGet(v.rules, attribute)) :
    MapGet(v.rules, attribute)[i].name = SometimesName

\* A run of check() has just ended.
AfterCheck == pc = "ready" /\ h.runs # <<>>

\* C6: in check(), an attribute for which stop-on-error is active has no
\* rule evaluated after its first failing rule and gets at most one
\* FailureRecord in the run; it is still evaluated up to that rule whatever
\* happened to the other attributes, and an attribute for which it is not
\* active has all its validatable rules evaluated.
C6_StopOnError ==
  AfterCheck =>
    \A e \in 1..Len(v.rules) :
      LET attribute == v.rules[e].k
          inv == InvokedOf(attribute)
      IN ~SkipsAttribute(v, attribute) =>
           /\ StopActive(attribute) =>
                /\ Len(FailuresOf(attribute)) <= 1
                /\ \A k \in 1..(Len(inv) - 1) : inv[k].passed
                /\ IndicesOf(inv) \subseteq ValidatableIndices(attribute)
                /\ (inv = <<>> \/ inv[Len(inv)].passed) =>
                     IndicesOf(inv) = ValidatableIndices(attribute)
           /\ ~StopActive(attribute) =>
                /\ IndicesOf(inv) = ValidatableIndices(attribute)
                /\ Len(inv) = Cardinality(ValidatableIndices(attribute))

\* With stop-on-error active for one attribute only, that attribute stopped
\* at its first failing rule of two, and another attribute recorded two failures.
C6_Witness ==
  /\ AfterCheck
  /\ v.stopOnAttributes.t = "arr"
  /\ \E e \in 1..Len(v.rules) :
       /\ StopActive(v.rules[e].k)
       /\ Cardinality(ValidatableIndices(v.rules[e].k)) = 2
       /\ Len(InvokedOf(v.rules[e].k)) = 1
       /\ Len(FailuresOf(v.rules[e].k)) = 1
  /\ \E e \in 1..Len(v.rules) :
       /\ ~StopActive(v.rules[e].k)
       /\ Len(FailuresOf(v.rules[e].k)) = 2

\* The first template that exists, in the order given.
FirstOf(candidates) ==
  LET present == {i \in 1..Len(candidates) : MapHas(candidates[i].table, candidates[i].key)}
      first == CHOOSE i \in present : \A j \in present : i <= j
  IN IF present = {} THEN MapGet(v.messages, DefKey)
     ELSE MapGet(candidates[first].table, candidates[first].key)

On(name, attribute) == name \o <<".">> \o attribute

\* C7 as amended: the template of a failed rule r on attribute a is the
\* first that exists of the custom message for r on a, the localized
\* template for r on a, the custom message for r, the localized template
\* for r, and the default template.
C7_TemplatePrecedence ==
  \A k \in 1..Len(h.failures) :
    LET f == h.failures[k] IN
    f.message = FirstOf(<<[table |-> v.customMessages, key |-> On(f.name, f.attribute)],
                          [table |-> v.messages, key |-> On(f.name, f.attribute)],
                          [table |-> v.customMessages, key |-> f.name],
                          [table |-> v.messages, key |-> f.name]>>)

\* C7 as claimed: both custom messages come before both localized templates.
C7_CustomBeforeLocalized ==
  \A k \in 1..Len(h.failures) :
    LET f == h.failures[k] IN
    f.message = FirstOf(<<[table |-> v.customMessages, key |-> On(f.name, f.attribute)],
                          [table |-> v.customMessages, key |-> f.name],
                          [table |-> v.messages, key |-> On(f.name, f.attribute)],
                          [table |-> v.messages, key |-> f.name]>>)

\* A failure was rendered from the localized template for the rule on the
\* attribute although a custom message for the rule exists.
C7_Witness ==
  \E k \in 1..Len(h.failures) :
    LET f == h.failures[k] IN
    /\ ~MapHas(v.customMessages, On(f.name, f.attribute))
    /\ MapHas(v.customMessages, f.name)
    /\ MapHas(v.messages, On(f.name, f.attribute))
    /\ f.message = MapGet(v.messages, On(f.name, f.attribute))

HasStar(s) == IndexOf(s, "*") # -1

RECURSIVE ClaimedExpansion(_, _)
\* The concrete paths C8 gives a rule path: itself without '*'; with '*',
\* one expansion per index when the path before the first '*' resolves to
\* a sequence, and none otherwise.
ClaimedExpansion(input, path) ==
  IF ~HasStar(path) THEN {path}
  ELSE LET propertyValue == _objectPath(input, Substr(path, 0, IndexOf(path, "*") - 1))
       IN IF propertyValue.t = "arr"
          THEN UNION {ClaimedExpansion(input, ReplaceFirstStar(path, n)) :
                        n \in 0..(Len(propertyValue.a) - 1)}
          ELSE {}

\* The rule specification of the constructor, flattened.
FlatRules == _flattenObject(args.rules)

\* C8: the attributes of the canonical rule map are the rule paths without
\* '*' and, for each rule path with '*', one entry per index of the
\* sequence the path before the '*' resolves to, and none when it resolves
\* to anything that is not a sequence.
C8_WildcardExpansion ==
  pc # "new" =>
    LET claimed == UNION {ClaimedExpansion(v.input, FlatRules[k].k) : k \in 1..Len(FlatRules)}
    IN /\ {v.rules[e].k : e \in 1..Len(v.rules)} = claimed
       /\ Len(v.rules) = Cardinality(claimed)

RECURSIVE ExistsWalk(_, _)
\* Whether every segment of a path is present, whatever the value found.
ExistsWalk(copy, keys) ==
  IF keys = <<>> THEN TRUE
  ELSE HasOwn(copy, keys[1]) /\ ExistsWalk(GetOwn(copy, keys[1]), Tail(keys))

\* The path exists in the input, as a key of its own or in dot notation.
PathExists(input, path) ==
  \/ MapHas(input.m, path)
  \/ ExistsWalk(input, Split(StripLeadingDot(path), "."))

\* A run of check() has just ended, or checkAsync has returned.
RunEnded == AfterCheck \/ pc = "waiting"

\* C9: an attribute with a `sometimes` rule has no predicate invoked and no
\* FailureRecord when its path is absent from the input, and has its rules
\* run like any other attribute's when its path exists there.
C9_Sometimes ==
  RunEnded =>
    \A e \in 1..Len(v.rules) :
      LET attribute == v.rules[e].k
          inv == InvokedOf(attribute)
      IN HasSometimes(attribute) =>
           /\ ~PathExists(v.input, attribute) =>
                (inv = <<>> /\ FailuresOf(attribute) = <<>>)
           /\ PathExists(v.input, attribute) =>
                IF pc = "waiting" \/ ~StopActive(attribute)
                THEN IndicesOf(inv) = ValidatableIndices(attribute)
                ELSE ValidatableIndices(attribute) # {} => inv # <<>>

Segments(path) == Split(path, ".")
IsIndexSegment(seg) == \E n \in 0..9 : NumToStr(n) = seg

\* A concrete path is an expansion of a rule path with '*'.
Matches(concrete, pattern) ==
  /\ Len(Segments(concrete)) = Len(Segments(pattern))
  /\ \A i \in 1..Len(Segments(pattern)) :
       \/ Segments(pattern)[i] = Segments(concrete)[i]
       \/ Segments(pattern)[i] = <<"*">> /\ IsIndexSegment(Segments(concrete)[i])

\* The indices bound to the '*' segments of the pattern, left to right.
BindingsOf(concrete, pattern) ==
  LET positions == SelectSeq([i \in 1..Len(Segments(pattern)) |-> i],
                             LAMBDA i : Segments(pattern)[i] = <<"*">>)
  IN [k \in 1..Len(positions) |->
        CHOOSE n \in 0..9 : NumToStr(n) = Segments(concrete)[positions[k]]]

\* The rules of a rule path as written, before any index is bound.
RulesAsWritten(rulesArray) ==
  ParseLoop([customMessages |-> <<>>, hasAsync |-> FALSE], RulesArrayOf(rulesArray),
            <<>>, <<>>).attributeRules

SameValue(x, y) == x.t = y.t /\ x = y

\* C10: on every concrete path expanded from a rule path with '*', each
\* rule's parameter value has its '*' replaced left to right by the bound
\* indices, and every custom message whose key holds '*' is also registered
\* under the key with its '*' replaced by the same indices, whether or not
\* the rules of the path have a parameter value.
C10_WildcardValuesAndMessages ==
  pc # "new" =>
    \A k \in 1..Len(FlatRules), e \in 1..Len(v.rules) :
      (HasStar(FlatRules[k].k) /\ Matches(v.rules[e].k, FlatRules[k].k)) =>
        LET nums == BindingsOf(v.rules[e].k, FlatRules[k].k)
            written == RulesAsWritten(FlatRules[k].v)
            parsed == v.rules[e].v
        IN /\ Len(parsed) = Len(written)
           /\ \A i \in 1..Len(parsed) :
                /\ parsed[i].name = written[i].name
                /\ SameValue(parsed[i].value, ReplaceInValue(written[i].value, nums))
           /\ \A m \in 1..Len(args.customMessages) :
                HasStar(args.customMessages[m].k) =>
                  LET newKey == _replaceWildCards(args.customMessages[m].k, nums)
                  IN /\ MapHas(v.customMessages, newKey)
                     /\ MapGet(v.customMessages, newKey) = args.customMessages[m].v


\* The name a rule written as a string has: the text before its first ':'.
WrittenName(ruleString) ==
  IF IndexOf(ruleString, ":") >= 0 THEN Substr(ruleString, 0, IndexOf(ruleString, ":"))
  ELSE ruleString

RECURSIVE WrittenArrayNames(_)
\* The rule names of a sequence of strings and maps, in the order written:
\* a string gives its name, a map gives its keys in their order.
WrittenArrayNames(elems) ==
  IF elems = <<>> THEN <<>>
  ELSE LET x == elems[1]
           head == CASE x.t = "str" -> <<WrittenName(x.s)>>
                     [] x.t = "map" -> MapKeys(x.m)
                     [] x.t = "rule" -> <<x.name>>
                     [] OTHER -> <<>>
       IN head \o WrittenArrayNames(Tail(elems))

\* The rule names of one attribute's rule specification, in the order written.
WrittenNames(rulesArray) ==
  CASE rulesArray.t = "str" ->
         LET parts == Split(rulesArray.s, "|")
         IN [i \in 1..Len(parts) |-> WrittenName(parts[i])]
    [] rulesArray.t = "arr" -> WrittenArrayNames(rulesArray.a)
    [] OTHER -> <<>>

\* The flattened rule path k is where the canonical attribute comes from.
WrittenAt(attribute, k) ==
  \/ FlatRules[k].k = attribute
  \/ HasStar(FlatRules[k].k) /\ Matches(attribute, FlatRules[k].k)

\* The rules of a canonical attribute have the names written for it, in the
\* order written.
OrderKept(e) ==
  \A k \in 1..Len(FlatRules) :
    WrittenAt(v.rules[e].k, k) =>
      [i \in 1..Len(v.rules[e].v) |-> v.rules[e].v[i].name] = WrittenNames(FlatRules[k].v)

\* C11: after construction, whatever the shape of the rule specification
\* (an empty sequence or an empty map as an attribute's rules included),
\* every attribute of the canonical rule map has a non-empty rule sequence,
\* and the sequence keeps the order in which the rules were written.
C11_RuleSequences ==
  pc # "new" =>
    \A e \in 1..Len(v.rules) : Len(v.rules[e].v) > 0 /\ OrderKept(e)

=============================================================================
